---- MODULE Spec2Model ----
(***************************************************************************)
(* Model of src/src/main.ts of chargeling/cmpm-121-demo-3.                 *)
(*                                                                         *)
(* main.ts holds two successive iterations of the same program:            *)
(*   iteration 1 (lines 1-169): spawnCache, whose popup keeps the cache    *)
(*     value in a closure variable, coinSerialMap / getNextCoinSerial, and *)
(*     a start-up neighbourhood loop; it has no movement handlers;         *)
(*   iteration 2 (lines 171-468): the memento store, spawnOrRestoreCache,  *)
(*     removeCacheIfVisible, updateVisibleCaches, movePlayer and the       *)
(*     button handlers.                                                    *)
(* The variable iteration says which of the two is running; it is chosen   *)
(* at start-up and never changes.                                          *)
(*                                                                         *)
(* Units.  Coordinates are held in millionths of a degree, so that         *)
(* Math.floor(x * 1e4) is x \div 100.  luck values are held in thousandths.*)
(***************************************************************************)
EXTENDS Integers, Sequences, FiniteSets, TLC

\* ---- bounds of the exploration ----
MaxMoves == 2       \* movement / reset clicks in one run
MaxHarvests == 2    \* poke clicks in one run
MaxCalls == 3       \* getOrCreateCell calls in the quantizer specification

\* ---- program constants ----
NEIGHBORHOOD_SIZE == 8
CACHE_SPAWN_PROBABILITY == 100   \* 0.1, in thousandths
\* a step of 0.0003 degrees: 3 cells, less than a neighbourhood is wide
MOVEMENT_DELTA_short == 3 * 100

MOVEMENT_DELTA == 10000          \* 0.01 degrees, in millionths of a degree
OAKES_CLASSROOM == [lat |-> 36989493, lng |-> -122062772]

VARIABLES
  iteration,           \* 1 or 2: which iteration of main.ts is running
  cellFlyweightCache,  \* key <<i, j>> -> cell object [ref, i, j]
  cellObjects,         \* number of cell objects allocated so far
  returned,            \* log of getOrCreateCell calls: [lat, lng, ref]
  coinSerialMap,       \* iteration 1: key <<i, j>> -> next serial
  cacheMementos,       \* iteration 2: key <<i, j>> -> CacheMemento
  layers,              \* rectangles on the map: [rect, i, j]
  rects,               \* number of rectangle objects created so far
  popup,               \* the open popup, or NoPopup
  playerLat, playerLng,
  playerMarker,        \* <<lat, lng>> of the marker
  mapCenter,           \* <<lat, lng>> the map is centred on
  playerPoints,
  statusPanel,         \* <<>> for "No points yet...", <<n>> for "n points accumulated"
  console,             \* sequence of the coin ids logged
  clicks               \* movement / reset clicks so far

vars == <<iteration, cellFlyweightCache, cellObjects, returned,
          coinSerialMap, cacheMementos, layers, rects, popup, playerLat,
          playerLng, playerMarker, mapCenter, playerPoints, statusPanel,
          console, clicks>>

\* ---- JavaScript numbers that reach the quantizer ----
Finite(n) == [fin |-> TRUE, v |-> n]
NaN == [fin |-> FALSE, v |-> 0]
PosInfinity == [fin |-> FALSE, v |-> 1]
NegInfinity == [fin |-> FALSE, v |-> -1]

\* Math.floor(x * 1e4): NaN and the infinities pass through unchanged.
FloorTimes1e4(x) == IF x.fin THEN Finite(x.v \div 100) ELSE x

\* ---- luck.ts (not among the sources): a pure function of its key ----
\* key is <<i, j>> or <<i, j, "initialValue">>; the result is in 0..999
\* (thousandths).  This stand-in is a fixed arithmetic hash; around the
\* start-up cell it puts three caches in the neighbourhood, one of them on the
\* dj = +NEIGHBORHOOD_SIZE edge and one with initial value 0.
luck(key) ==
  LET a == key[1] % 1000
      b == key[2] % 1000
  IN IF Len(key) = 2
     THEN LET h == (a * 37 + b * 91 + a * b + 375) % 1000
          IN IF 8 * h > 999 THEN 999 ELSE 8 * h
     ELSE LET h == (a * 7 + b * 13 + 625) % 1000
          IN (h % 8) * 125 + (h % 5)

\* ---- 1) flyweight ----
\* getOrCreateCell without the has() test: every call stores a new object
getOrCreateCell_alwaysNew(fw, lat, lng) ==
  LET i == FloorTimes1e4(lat)
      j == FloorTimes1e4(lng)
      key == <<i, j>>
      cell == [ref |-> fw.objects + 1, i |-> i, j |-> j]
  IN [cache |-> [k \in DOMAIN fw.cache \cup {key} |->
                   IF k = key THEN cell ELSE fw.cache[k]],
      objects |-> fw.objects + 1,
      cell |-> cell]

\* fw is [cache, objects]; the result adds the cell the call returns.
getOrCreateCell(fw, lat, lng) ==
  LET i == FloorTimes1e4(lat)
      j == FloorTimes1e4(lng)
      key == <<i, j>>
      missing == key \notin DOMAIN fw.cache
      cache == IF missing
               THEN fw.cache @@ (key :> [ref |-> fw.objects + 1, i |-> i, j |-> j])
               ELSE fw.cache
  IN [cache |-> cache,
      objects |-> IF missing THEN fw.objects + 1 ELSE fw.objects,
      cell |-> cache[key]]

\* ---- iteration 1: coin serials ----
\* the map after getNextCoinSerial(i, j); the serial it returns is SerialOf
SerialOf(serials, i, j) ==
  IF <<i, j>> \in DOMAIN serials THEN serials[<<i, j>>] ELSE 0

getNextCoinSerial(serials, i, j) ==
  LET nextSerial == SerialOf(serials, i, j)
  IN IF <<i, j>> \in DOMAIN serials
     THEN [serials EXCEPT ![<<i, j>>] = nextSerial + 1]
     ELSE serials @@ (<<i, j>> :> nextSerial + 1)

\* ---- 2) memento ----
NoRect == 0

getCacheKey(i, j) == <<i, j>>

InitialValue(i, j) == (luck(<<i, j, "initialValue">>) * 100) \div 1000

\* getOrCreateCacheMemento that rolls a new record whenever the cache is
\* not on the map
getOrCreateCacheMemento_reroll(mementos, i, j) ==
  LET key == getCacheKey(i, j)
      fresh == [i |-> i, j |-> j, pointValue |-> InitialValue(i, j),
                nextCoinSerial |-> 0, rectangle |-> NoRect]
  IN [k \in DOMAIN mementos \cup {key} |->
        IF k = key /\ (key \notin DOMAIN mementos \/ mementos[key].rectangle = NoRect)
        THEN fresh ELSE mementos[k]]

getOrCreateCacheMemento(mementos, i, j) ==
  LET key == getCacheKey(i, j)
  IN IF key \notin DOMAIN mementos
     THEN mementos @@ (key :> [i |-> i, j |-> j,
                               pointValue |-> InitialValue(i, j),
                               nextCoinSerial |-> 0,
                               rectangle |-> NoRect])
     ELSE mementos

NoPopup == [open |-> FALSE, rect |-> NoRect, i |-> 0, j |-> 0,
            pointValue |-> 0, shown |-> 0]

\* spawnOrRestoreCache without the early return on memento.rectangle
spawnOrRestoreCache_noReturn(w, i, j) ==
  LET ms == getOrCreateCacheMemento(w.mementos, i, j)
      key == getCacheKey(i, j)
      rect == w.rects + 1
  IN [mementos |-> [ms EXCEPT ![key].rectangle = rect],
      layers |-> w.layers \cup {[rect |-> rect, i |-> i, j |-> j]},
      rects |-> rect,
      popup |-> w.popup]

\* spawnOrRestoreCache that puts a rectangle only on a cell that had no record
spawnOrRestoreCache_onlyNew(w, i, j) ==
  LET ms == getOrCreateCacheMemento(w.mementos, i, j)
      key == getCacheKey(i, j)
      rect == w.rects + 1
  IN IF key \in DOMAIN w.mementos
     THEN w
     ELSE [mementos |-> [ms EXCEPT ![key].rectangle = rect],
           layers |-> w.layers \cup {[rect |-> rect, i |-> i, j |-> j]},
           rects |-> rect,
           popup |-> w.popup]

\* w is the part of the state the cache functions touch:
\* [mementos, layers, rects, popup]
spawnOrRestoreCache(w, i, j) ==
  LET ms == getOrCreateCacheMemento(w.mementos, i, j)
      key == getCacheKey(i, j)
      rect == w.rects + 1
  IN IF ms[key].rectangle # NoRect
     THEN [w EXCEPT !.mementos = ms]
     ELSE [mementos |-> [ms EXCEPT ![key].rectangle = rect],
           layers |-> w.layers \cup {[rect |-> rect, i |-> i, j |-> j]},
           rects |-> rect,
           popup |-> w.popup]

\* removeCacheIfVisible that takes the rectangle off the map but keeps the
\* handle in the memento
removeCacheIfVisible_keepsHandle(w, i, j) ==
  LET key == getCacheKey(i, j)
  IN IF key \in DOMAIN w.mementos /\ w.mementos[key].rectangle # NoRect
     THEN LET rect == w.mementos[key].rectangle
          IN [mementos |-> w.mementos,
              layers |-> {l \in w.layers : l.rect # rect},
              rects |-> w.rects,
              popup |-> IF w.popup.open /\ w.popup.rect = rect
                        THEN NoPopup ELSE w.popup]
     ELSE w

\* removeCacheIfVisible whose rectangle leaves its popup open
removeCacheIfVisible_popupStays(w, i, j) ==
  LET key == getCacheKey(i, j)
  IN IF key \in DOMAIN w.mementos /\ w.mementos[key].rectangle # NoRect
     THEN LET rect == w.mementos[key].rectangle
          IN [mementos |-> [w.mementos EXCEPT ![key].rectangle = NoRect],
              layers |-> {l \in w.layers : l.rect # rect},
              rects |-> w.rects,
              popup |-> w.popup]
     ELSE w

\* removeCacheIfVisible that also deletes the record of the cache it removes
removeCacheIfVisible_deletesRecord(w, i, j) ==
  LET key == getCacheKey(i, j)
  IN IF key \in DOMAIN w.mementos /\ w.mementos[key].rectangle # NoRect
     THEN LET rect == w.mementos[key].rectangle
          IN [mementos |-> [k \in DOMAIN w.mementos \ {key} |-> w.mementos[k]],
              layers |-> {l \in w.layers : l.rect # rect},
              rects |-> w.rects,
              popup |-> IF w.popup.open /\ w.popup.rect = rect
                        THEN NoPopup ELSE w.popup]
     ELSE w

\* rectangle.remove() also closes the popup bound to that rectangle
removeCacheIfVisible(w, i, j) ==
  LET key == getCacheKey(i, j)
  IN IF key \in DOMAIN w.mementos /\ w.mementos[key].rectangle # NoRect
     THEN LET rect == w.mementos[key].rectangle
          IN [mementos |-> [w.mementos EXCEPT ![key].rectangle = NoRect],
              layers |-> {l \in w.layers : l.rect # rect},
              rects |-> w.rects,
              popup |-> IF w.popup.open /\ w.popup.rect = rect
                        THEN NoPopup ELSE w.popup]
     ELSE w

\* the cells the double loop over lo..hi visits, in the order it visits them
\* (di outer, dj inner), around the cell (ci, cj)
LoopCells(ci, cj, lo, hi) ==
  LET side == hi - lo + 1
  IN [n \in 1..(side * side) |->
        [i |-> ci + lo + ((n - 1) \div side), j |-> cj + lo + ((n - 1) % side)]]

\* the luck test made on [cellJ, cellI]
LuckyCells_swapped(ci, cj, lo, hi) ==
  SelectSeq(LoopCells(ci, cj, lo, hi),
            LAMBDA cell : luck(<<cell.j, cell.i>>) < CACHE_SPAWN_PROBABILITY)

\* the cells of LoopCells that pass the test of the if statement inside the
\* loops, luck([cellI, cellJ]) < CACHE_SPAWN_PROBABILITY, in loop order
LuckyCells(ci, cj, lo, hi) ==
  SelectSeq(LoopCells(ci, cj, lo, hi),
            LAMBDA cell : luck(<<cell.i, cell.j>>) < CACHE_SPAWN_PROBABILITY)

\* the centre cells a run of at most MaxMoves clicks can reach
Centers ==
  {<<OAKES_CLASSROOM.lat \div 100 + a * (MOVEMENT_DELTA \div 100),
     OAKES_CLASSROOM.lng \div 100 + b * (MOVEMENT_DELTA \div 100)>> :
     a \in -MaxMoves..MaxMoves, b \in -MaxMoves..MaxMoves}

\* LuckyCells over the closed neighbourhood, tabulated once per centre
VisibleCells ==
  [c \in Centers |->
     LuckyCells(c[1], c[2], -NEIGHBORHOOD_SIZE, NEIGHBORHOOD_SIZE)]

\* step 1 of updateVisibleCaches, run over the cells that pass the test
RECURSIVE ScanNeighborhood(_, _, _)
ScanNeighborhood(acc, cells, n) ==
  IF n > Len(cells) THEN acc
  ELSE LET cellI == cells[n].i
           cellJ == cells[n].j
       IN ScanNeighborhood(
            [w |-> spawnOrRestoreCache(acc.w, cellI, cellJ),
             visibleKeys |-> acc.visibleKeys \cup {getCacheKey(cellI, cellJ)}],
            cells, n + 1)

\* step 2 of updateVisibleCaches: the loop over cacheMementos
RECURSIVE RemoveInvisible(_, _, _)
RemoveInvisible(w, visibleKeys, todo) ==
  IF todo = {} THEN w
  ELSE LET key == CHOOSE k \in todo : TRUE
           memento == w.mementos[key]
       IN IF memento.rectangle # NoRect /\ key \notin visibleKeys
          THEN RemoveInvisible(removeCacheIfVisible(w, memento.i, memento.j),
                               visibleKeys, todo \ {key})
          ELSE RemoveInvisible(w, visibleKeys, todo \ {key})

\* updateVisibleCaches without its second loop
updateVisibleCaches_noRemoval(w, playerCell) ==
  LET cells == VisibleCells[<<playerCell.i.v, playerCell.j.v>>]
  IN ScanNeighborhood([w |-> w, visibleKeys |-> {}], cells, 1).w

\* playerCell is the cell getOrCreateCell returned for the player position
updateVisibleCaches(w, playerCell) ==
  LET cells == VisibleCells[<<playerCell.i.v, playerCell.j.v>>]
      scanned == ScanNeighborhood([w |-> w, visibleKeys |-> {}], cells, 1)
  IN RemoveInvisible(scanned.w, scanned.visibleKeys, DOMAIN scanned.w.mementos)

\* ---- iteration 1: spawnCache and the start-up loop ----
spawnCache(w, i, j) ==
  [w EXCEPT !.layers = @ \cup {[rect |-> w.rects + 1, i |-> i, j |-> j]},
            !.rects = @ + 1]

\* the start-up loop (di and dj run over -NEIGHBORHOOD_SIZE..NEIGHBORHOOD_SIZE-1),
\* run over the cells that pass the test
RECURSIVE StartupLoop(_, _, _)
StartupLoop(w, cells, n) ==
  IF n > Len(cells) THEN w
  ELSE StartupLoop(spawnCache(w, cells[n].i, cells[n].j), cells, n + 1)

\* ---- state after the module has run ----
World == [mementos |-> cacheMementos, layers |-> layers, rects |-> rects,
          popup |-> popup]

EmptyWorld == [mementos |-> <<>>, layers |-> {}, rects |-> 0, popup |-> NoPopup]

Flyweight == [cache |-> cellFlyweightCache, objects |-> cellObjects]

Init ==
  /\ iteration \in {1, 2}
  /\ playerLat = OAKES_CLASSROOM.lat
  /\ playerLng = OAKES_CLASSROOM.lng
  /\ playerMarker = <<OAKES_CLASSROOM.lat, OAKES_CLASSROOM.lng>>
  /\ mapCenter = <<OAKES_CLASSROOM.lat, OAKES_CLASSROOM.lng>>
  /\ playerPoints = 0
  /\ statusPanel = <<>>
  /\ console = <<>>
  /\ clicks = 0
  /\ coinSerialMap = <<>>
  /\ LET q == getOrCreateCell([cache |-> <<>>, objects |-> 0],
                              Finite(OAKES_CLASSROOM.lat),
                              Finite(OAKES_CLASSROOM.lng))
         w == IF iteration = 1
              THEN StartupLoop(EmptyWorld,
                     LuckyCells(q.cell.i.v, q.cell.j.v,
                                -NEIGHBORHOOD_SIZE, NEIGHBORHOOD_SIZE - 1), 1)
              ELSE updateVisibleCaches(EmptyWorld, q.cell)
     IN /\ cellFlyweightCache = q.cache
        /\ cellObjects = q.objects
        /\ returned = {[lat |-> Finite(OAKES_CLASSROOM.lat),
                        lng |-> Finite(OAKES_CLASSROOM.lng),
                        ref |-> q.cell.ref]}
        /\ cacheMementos = w.mementos
        /\ layers = w.layers
        /\ rects = w.rects
        /\ popup = w.popup

\* ---- iteration 1 handlers ----
\* the function given to rect.bindPopup in spawnCache: runs at each opening
spawnCachePopup ==
  /\ iteration = 1
  /\ \E l \in layers :
       LET pointValue == (luck(<<l.i, l.j, "initialValue">>) * 100) \div 1000
       IN popup' = [open |-> TRUE, rect |-> l.rect, i |-> l.i, j |-> l.j,
                    pointValue |-> pointValue, shown |-> pointValue]
  /\ UNCHANGED <<iteration, cellFlyweightCache, cellObjects, returned,
                 coinSerialMap, cacheMementos, layers, rects, playerLat,
                 playerLng, playerMarker, mapCenter, playerPoints,
                 statusPanel, console, clicks>>

\* the click listener of the poke button in spawnCache
spawnCachePoke ==
  /\ iteration = 1
  /\ popup.open
  /\ playerPoints < MaxHarvests
  /\ popup' = [popup EXCEPT !.pointValue = @ - 1, !.shown = popup.pointValue - 1]
  /\ playerPoints' = playerPoints + 1
  /\ statusPanel' = <<playerPoints + 1>>
  /\ coinSerialMap' = getNextCoinSerial(coinSerialMap, popup.i, popup.j)
  /\ console' = Append(console, [i |-> popup.i, j |-> popup.j,
                                 serial |-> SerialOf(coinSerialMap, popup.i, popup.j)])
  /\ UNCHANGED <<iteration, cellFlyweightCache, cellObjects, returned,
                 cacheMementos, layers, rects, playerLat, playerLng,
                 playerMarker, mapCenter, clicks>>

\* ---- iteration 2 handlers ----
\* the function given to rect.bindPopup in spawnOrRestoreCache
spawnOrRestoreCachePopup ==
  /\ iteration = 2
  /\ \E l \in layers :
       LET memento == cacheMementos[getCacheKey(l.i, l.j)]
       IN popup' = [open |-> TRUE, rect |-> l.rect, i |-> l.i, j |-> l.j,
                    pointValue |-> 0, shown |-> memento.pointValue]
  /\ UNCHANGED <<iteration, cellFlyweightCache, cellObjects, returned,
                 coinSerialMap, cacheMementos, layers, rects, playerLat,
                 playerLng, playerMarker, mapCenter, playerPoints,
                 statusPanel, console, clicks>>

\* a poke listener that reads nextCoinSerial without incrementing it
PokeMemento_noIncrement(mementos, key) ==
  [mementos EXCEPT ![key].pointValue = @ - 1]

\* a poke listener that hands out a serial without taking a point out of
\* the cache
PokeMemento_noDecrement(mementos, key) ==
  [mementos EXCEPT ![key].nextCoinSerial = @ + 1]

\* a poke listener that acts on every record of the store
PokeMemento_everyRecord(mementos, key) ==
  [k \in DOMAIN mementos |->
     [mementos[k] EXCEPT !.pointValue = @ - 1, !.nextCoinSerial = @ + 1]]

\* the mementos after the poke listener of the cache at key has run
PokeMemento(mementos, key) ==
  [mementos EXCEPT ![key].pointValue = @ - 1, ![key].nextCoinSerial = @ + 1]

\* a poke listener that does nothing once the cache is empty
spawnOrRestoreCachePoke_floor ==
  /\ iteration = 2
  /\ popup.open
  /\ playerPoints < MaxHarvests
  /\ cacheMementos[getCacheKey(popup.i, popup.j)].pointValue > 0
  /\ LET key == getCacheKey(popup.i, popup.j)
         after == PokeMemento(cacheMementos, key)
     IN /\ cacheMementos' = after
        /\ popup' = [popup EXCEPT !.shown = after[key].pointValue]
        /\ console' = Append(console, [i |-> popup.i, j |-> popup.j,
                                       serial |-> cacheMementos[key].nextCoinSerial])
  /\ playerPoints' = playerPoints + 1
  /\ statusPanel' = <<playerPoints + 1>>
  /\ UNCHANGED <<iteration, cellFlyweightCache, cellObjects, returned,
                 coinSerialMap, layers, rects, playerLat, playerLng,
                 playerMarker, mapCenter, clicks>>

\* the click listener of the poke button in spawnOrRestoreCache
spawnOrRestoreCachePoke ==
  /\ iteration = 2
  /\ popup.open
  /\ playerPoints < MaxHarvests
  /\ LET key == getCacheKey(popup.i, popup.j)
         after == PokeMemento(cacheMementos, key)
     IN /\ cacheMementos' = after
        /\ popup' = [popup EXCEPT !.shown = after[key].pointValue]
        /\ console' = Append(console, [i |-> popup.i, j |-> popup.j,
                                       serial |-> cacheMementos[key].nextCoinSerial])
  /\ playerPoints' = playerPoints + 1
  /\ statusPanel' = <<playerPoints + 1>>
  /\ UNCHANGED <<iteration, cellFlyweightCache, cellObjects, returned,
                 coinSerialMap, layers, rects, playerLat, playerLng,
                 playerMarker, mapCenter, clicks>>

\* the player closes the open popup
closePopup ==
  /\ popup.open
  /\ popup' = NoPopup
  /\ UNCHANGED <<iteration, cellFlyweightCache, cellObjects, returned,
                 coinSerialMap, cacheMementos, layers, rects, playerLat,
                 playerLng, playerMarker, mapCenter, playerPoints,
                 statusPanel, console, clicks>>

\* updateVisibleCaches() run as a statement at position (lat, lng)
RunUpdateVisibleCaches(lat, lng) ==
  LET q == getOrCreateCell(Flyweight, Finite(lat), Finite(lng))
      w == updateVisibleCaches(World, q.cell)
  IN /\ cellFlyweightCache' = q.cache
     /\ cellObjects' = q.objects
     /\ returned' = returned \cup {[lat |-> Finite(lat), lng |-> Finite(lng),
                                    ref |-> q.cell.ref]}
     /\ cacheMementos' = w.mementos
     /\ layers' = w.layers
     /\ rects' = w.rects
     /\ popup' = w.popup

movePlayer(dLat, dLng) ==
  /\ playerLat' = playerLat + dLat
  /\ playerLng' = playerLng + dLng
  /\ playerMarker' = <<playerLat + dLat, playerLng + dLng>>
  /\ mapCenter' = <<playerLat + dLat, playerLng + dLng>>
  /\ RunUpdateVisibleCaches(playerLat + dLat, playerLng + dLng)

Moved ==
  /\ iteration = 2
  /\ clicks < MaxMoves
  /\ clicks' = clicks + 1
  /\ UNCHANGED <<iteration, coinSerialMap, playerPoints, statusPanel,
                 console>>

north == Moved /\ movePlayer(MOVEMENT_DELTA, 0)
south == Moved /\ movePlayer(-MOVEMENT_DELTA, 0)
east == Moved /\ movePlayer(0, MOVEMENT_DELTA)
west == Moved /\ movePlayer(0, -MOVEMENT_DELTA)

\* a reset that puts the player back without calling updateVisibleCaches
reset_noUpdate ==
  /\ Moved
  /\ playerLat' = OAKES_CLASSROOM.lat
  /\ playerLng' = OAKES_CLASSROOM.lng
  /\ playerMarker' = <<OAKES_CLASSROOM.lat, OAKES_CLASSROOM.lng>>
  /\ UNCHANGED <<mapCenter, cellFlyweightCache, cellObjects, returned,
                 cacheMementos, layers, rects, popup>>

reset ==
  /\ Moved
  /\ playerLat' = OAKES_CLASSROOM.lat
  /\ playerLng' = OAKES_CLASSROOM.lng
  /\ playerMarker' = <<OAKES_CLASSROOM.lat, OAKES_CLASSROOM.lng>>
  /\ UNCHANGED mapCenter
  /\ RunUpdateVisibleCaches(OAKES_CLASSROOM.lat, OAKES_CLASSROOM.lng)

\* alert(...): no effect on the state
sensor ==
  /\ iteration = 2
  /\ UNCHANGED vars

Next ==
  \/ spawnCachePopup
  \/ spawnCachePoke
  \/ spawnOrRestoreCachePopup
  \/ spawnOrRestoreCachePoke
  \/ closePopup
  \/ north
  \/ south
  \/ east
  \/ west
  \/ reset
  \/ sensor

Spec == Init /\ [][Next]_vars

\* ---- the quantizer on its own: getOrCreateCell applied to arbitrary numbers ----
LatInputs == {NaN, PosInfinity, Finite(-1), Finite(0), Finite(99), Finite(100)}
LngInputs == {NaN, NegInfinity, Finite(0), Finite(50)}

InitQuantize ==
  /\ iteration = 0
  /\ cellFlyweightCache = <<>>
  /\ cellObjects = 0
  /\ returned = {}
  /\ coinSerialMap = <<>>
  /\ cacheMementos = <<>>
  /\ layers = {}
  /\ rects = 0
  /\ popup = NoPopup
  /\ playerLat = OAKES_CLASSROOM.lat
  /\ playerLng = OAKES_CLASSROOM.lng
  /\ playerMarker = <<OAKES_CLASSROOM.lat, OAKES_CLASSROOM.lng>>
  /\ mapCenter = <<OAKES_CLASSROOM.lat, OAKES_CLASSROOM.lng>>
  /\ playerPoints = 0
  /\ statusPanel = <<>>
  /\ console = <<>>
  /\ clicks = 0

Quantize ==
  /\ Cardinality(returned) < MaxCalls
  /\ \E lat \in LatInputs, lng \in LngInputs :
       LET q == getOrCreateCell(Flyweight, lat, lng)
       IN /\ cellFlyweightCache' = q.cache
          /\ cellObjects' = q.objects
          /\ returned' = returned \cup {[lat |-> lat, lng |-> lng, ref |-> q.cell.ref]}
  /\ UNCHANGED <<iteration, coinSerialMap, cacheMementos, layers, rects,
                 popup, playerLat, playerLng, playerMarker, mapCenter,
                 playerPoints, statusPanel, console, clicks>>

NextQuantize == Quantize

SpecQuantize == InitQuantize /\ [][NextQuantize]_vars

\* ---- properties ----
\* the quantized player position, computed from the coordinates
CenterCell == <<playerLat \div 100, playerLng \div 100>>

\* the closed square of radius NEIGHBORHOOD_SIZE around a cell, filtered by luck
VisibleSet(c) ==
  {k \in ((c[1] - NEIGHBORHOOD_SIZE)..(c[1] + NEIGHBORHOOD_SIZE))
         \X ((c[2] - NEIGHBORHOOD_SIZE)..(c[2] + NEIGHBORHOOD_SIZE)) :
     luck(k) < CACHE_SPAWN_PROBABILITY}

\* the cells whose memento holds a rectangle
Materialized == {k \in DOMAIN cacheMementos : cacheMementos[k].rectangle # NoRect}

\* the cells that have a rectangle on the map
OnMap == {<<l.i, l.j>> : l \in layers}

OriginCell == <<OAKES_CLASSROOM.lat \div 100, OAKES_CLASSROOM.lng \div 100>>

\* a coin was logged in this step
Harvested == Len(console') = Len(console) + 1

\* the cell of the coin logged in this step
HarvestedKey == <<console'[Len(console')].i, console'[Len(console')].j>>

\* the per-cell serial counter of the running iteration
Counter(k) ==
  IF iteration = 1 THEN SerialOf(coinSerialMap, k[1], k[2])
  ELSE IF k \in DOMAIN cacheMementos THEN cacheMementos[k].nextCoinSerial ELSE 0

\* how many of the first n coins logged came from cell k
RECURSIVE CoinsOf(_, _, _)
CoinsOf(log, k, n) ==
  IF n = 0 THEN 0
  ELSE CoinsOf(log, k, n - 1) + (IF <<log[n].i, log[n].j>> = k THEN 1 ELSE 0)

\* C1: in iteration 2 the cells whose memento holds a rectangle are exactly
\* the cells within NEIGHBORHOOD_SIZE of the quantized player position whose
\* luck is below CACHE_SPAWN_PROBABILITY, and the rectangles on the map are
\* exactly theirs.
C1_VisibilitySet ==
  iteration = 2 =>
    LET visible == VisibleSet(CenterCell)
    IN Materialized = visible /\ OnMap = visible

\* after a move: some caches on the map, some records off it
C1_Witness ==
  /\ iteration = 2
  /\ clicks > 0
  /\ Materialized # {}
  /\ DOMAIN cacheMementos \ Materialized # {}
  /\ DOMAIN cacheMementos \ Materialized # VisibleSet(OriginCell)

\* C2: a step that is not a harvest on a record's cell leaves the record in
\* the store with the same pointValue and nextCoinSerial.
C2_MementoStability ==
  [][\A k \in DOMAIN cacheMementos :
       (~(Harvested /\ HarvestedKey = k)) =>
         /\ k \in DOMAIN cacheMementos'
         /\ cacheMementos'[k].pointValue = cacheMementos[k].pointValue
         /\ cacheMementos'[k].nextCoinSerial = cacheMementos[k].nextCoinSerial]_vars

\* a harvested cache of the start-up neighbourhood is on the map again with
\* a rectangle made after the start-up ones, its values kept
C2_Witness ==
  /\ iteration = 2
  /\ \E k \in Materialized :
       /\ k \in VisibleSet(OriginCell)
       /\ cacheMementos[k].rectangle > Cardinality(VisibleSet(OriginCell))
       /\ cacheMementos[k].nextCoinSerial > 0
       /\ cacheMementos[k].pointValue
            = InitialValue(k[1], k[2]) - cacheMementos[k].nextCoinSerial

\* C3: the n-th coin logged carries as serial the number of coins logged
\* before it from the same cell, and no step lowers a cell's serial counter.
C3_SerialMonotonicity ==
  [][/\ \A n \in 1..Len(console') :
          console'[n].serial
            = CoinsOf(console', <<console'[n].i, console'[n].j>>, n - 1)
     /\ \A k \in DOMAIN cacheMementos \cup DOMAIN coinSerialMap :
          Counter(k)' >= Counter(k)]_vars

\* two coins from one cell, the cell re-materialized in between or after
C3_Witness ==
  /\ Len(console) = 2
  /\ console[1].serial = 0
  /\ console[2].serial = 1
  /\ <<console[1].i, console[1].j>> = <<console[2].i, console[2].j>>
  /\ clicks > 0

\* C4: the value a popup shows for a cache that has been harvested is below
\* the initial roll: nothing puts the value back to floor(luck * 100).
C4_RolledOnce ==
  popup.open /\ Counter(<<popup.i, popup.j>>) > 0
    => popup.shown < InitialValue(popup.i, popup.j)

\* C5: the k-th harvest on a cell logs serial k - 1 and displays the initial
\* value minus k.
C5_HarvestValues ==
  [][Harvested =>
       LET k == CoinsOf(console', HarvestedKey, Len(console'))
       IN /\ console'[Len(console')].serial = k - 1
          /\ popup'.shown = InitialValue(HarvestedKey[1], HarvestedKey[2]) - k]_vars

\* C6: a click that leaves the quantized player position where it was
\* changes no rectangle, no record and no popup, and no cell ever has two
\* rectangles on the map.
C6_SameCenterNoDiff ==
  [][/\ (iteration = 2 /\ clicks' # clicks /\ CenterCell' = CenterCell) =>
          /\ layers' = layers
          /\ rects' = rects
          /\ cacheMementos' = cacheMementos
          /\ popup' = popup
     /\ \A l1, l2 \in layers' : (l1.i = l2.i /\ l1.j = l2.j) => l1 = l2]_vars

\* a reset pressed at the start-up position, with a popup left open
C6_Witness ==
  /\ iteration = 2
  /\ clicks = 1
  /\ CenterCell = OriginCell
  /\ layers # {}
  /\ popup.open

\* the neighbourhoods of two centre cells have no cell in common
DisjointNeighborhoods(c, d) ==
  \/ c[1] - d[1] > 2 * NEIGHBORHOOD_SIZE
  \/ d[1] - c[1] > 2 * NEIGHBORHOOD_SIZE
  \/ c[2] - d[2] > 2 * NEIGHBORHOOD_SIZE
  \/ d[2] - c[2] > 2 * NEIGHBORHOOD_SIZE

\* C7: a move to a centre whose neighbourhood is disjoint from the old one
\* takes every rectangle that was on the map off it and puts a new rectangle
\* on every member cell of the new neighbourhood.
C7_DisjointMove ==
  [][(iteration = 2 /\ clicks' # clicks
        /\ DisjointNeighborhoods(CenterCell, CenterCell')) =>
       /\ \A k \in Materialized : cacheMementos'[k].rectangle = NoRect
       /\ \A l \in layers : l \notin layers'
       /\ Materialized' = VisibleSet(CenterCell)'
       /\ \A k \in Materialized' : cacheMementos'[k].rectangle > rects
       /\ {l.rect : l \in layers'} = (rects + 1)..rects']_vars

\* away from the start-up position: every start-up cache is off the map and
\* the caches of the new neighbourhood are on it
C7_Witness ==
  /\ iteration = 2
  /\ CenterCell # OriginCell
  /\ VisibleSet(OriginCell) # {}
  /\ \A k \in VisibleSet(OriginCell) :
       k \in DOMAIN cacheMementos /\ cacheMementos[k].rectangle = NoRect
  /\ Materialized # {}

\* C8: two getOrCreateCell calls whose coordinates floor to the same (i, j)
\* returned the same object, and no call replaces or evicts an entry of the
\* cell cache.
C8_FlyweightIdentity ==
  [][/\ \A a, b \in returned' :
          (FloorTimes1e4(a.lat) = FloorTimes1e4(b.lat)
             /\ FloorTimes1e4(a.lng) = FloorTimes1e4(b.lng)) => a.ref = b.ref
     /\ \A k \in DOMAIN cellFlyweightCache :
          k \in DOMAIN cellFlyweightCache'
            /\ cellFlyweightCache'[k] = cellFlyweightCache[k]]_vars

\* two calls with different coordinates of one cell
C8_Witness ==
  \E a, b \in returned :
    /\ a.lat # b.lat
    /\ a.lat.fin /\ a.lng.fin
    /\ FloorTimes1e4(a.lat) = FloorTimes1e4(b.lat)
    /\ a.lng = b.lng
    /\ a.ref = b.ref

C10_NonFiniteRejected ==
  /\ \A r \in returned : r.lat.fin /\ r.lng.fin
  /\ \A k \in DOMAIN cellFlyweightCache : k[1].fin /\ k[2].fin

\* C11: in iteration 2 no step takes a key out of cacheMementos or puts
\* another record under it: the key set only grows, the record under a key
\* keeps the cell it was made for, its serial counter never goes back and its
\* value never goes up; and every record is stored under the key of its cell.
C11_RecordsPermanent ==
  [][iteration = 2 =>
       /\ \A k \in DOMAIN cacheMementos :
            /\ k \in DOMAIN cacheMementos'
            /\ cacheMementos'[k].i = cacheMementos[k].i
            /\ cacheMementos'[k].j = cacheMementos[k].j
            /\ cacheMementos'[k].nextCoinSerial >= cacheMementos[k].nextCoinSerial
            /\ cacheMementos'[k].pointValue <= cacheMementos[k].pointValue
       /\ \A k \in DOMAIN cacheMementos' :
            getCacheKey(cacheMementos'[k].i, cacheMementos'[k].j) = k]_vars

\* records of three neighbourhoods in the store, a harvested one among those
\* off the map
C11_Witness ==
  /\ iteration = 2
  /\ clicks = 2
  /\ \E k \in DOMAIN cacheMementos \ Materialized :
       cacheMementos[k].nextCoinSerial > 0
  /\ \E k \in DOMAIN cacheMementos \ Materialized :
       cacheMementos[k].nextCoinSerial = 0 /\ k \notin VisibleSet(OriginCell)

\* the clicks that call updateVisibleCaches
Events == {"north", "south", "east", "west", "reset"}

\* the sequences of at most MaxMoves clicks
Histories == UNION {[1..n -> Events] : n \in 0..MaxMoves}

\* the player position after a click
PositionAfter(lat, lng, e) ==
  CASE e = "north" -> <<lat + MOVEMENT_DELTA, lng>>
    [] e = "south" -> <<lat - MOVEMENT_DELTA, lng>>
    [] e = "east" -> <<lat, lng + MOVEMENT_DELTA>>
    [] e = "west" -> <<lat, lng - MOVEMENT_DELTA>>
    [] e = "reset" -> <<OAKES_CLASSROOM.lat, OAKES_CLASSROOM.lng>>

\* the program run from start-up through the first n clicks of h, with no
\* popup opened and nothing harvested
RECURSIVE Replay(_, _)
Replay(h, n) ==
  IF n = 0
  THEN LET q == getOrCreateCell([cache |-> <<>>, objects |-> 0],
                                Finite(OAKES_CLASSROOM.lat),
                                Finite(OAKES_CLASSROOM.lng))
       IN [lat |-> OAKES_CLASSROOM.lat, lng |-> OAKES_CLASSROOM.lng,
           fw |-> [cache |-> q.cache, objects |-> q.objects],
           w |-> updateVisibleCaches(EmptyWorld, q.cell)]
  ELSE LET before == Replay(h, n - 1)
           pos == PositionAfter(before.lat, before.lng, h[n])
           q == getOrCreateCell(before.fw, Finite(pos[1]), Finite(pos[2]))
       IN [lat |-> pos[1], lng |-> pos[2],
           fw |-> [cache |-> q.cache, objects |-> q.objects],
           w |-> updateVisibleCaches(before.w, q.cell)]

\* where each click sequence ends and what is materialized there
ReplayEnd ==
  [h \in Histories |->
     LET s == Replay(h, Len(h))
     IN [center |-> <<s.lat \div 100, s.lng \div 100>>,
         materialized |-> {k \in DOMAIN s.w.mementos :
                             s.w.mementos[k].rectangle # NoRect},
         onMap |-> {<<l.i, l.j>> : l \in s.w.layers}]]

\* per centre cell, the materialized sets of all click sequences ending there
MaterializedAt ==
  [c \in Centers |->
     {[materialized |-> ReplayEnd[h].materialized, onMap |-> ReplayEnd[h].onMap] :
        h \in {g \in Histories : ReplayEnd[g].center = c}}]

\* C12: in iteration 2 every click sequence that ends at the centre the
\* player is at ends with the materialized set, and the rectangles on the
\* map, of the current state, whatever was visited, opened or harvested on
\* the way to the current state.
C12_HistoryIndependence ==
  iteration = 2 =>
    MaterializedAt[CenterCell] = {[materialized |-> Materialized, onMap |-> OnMap]}

\* two clicks and a harvest led to a centre that other click sequences reach
\* too, some of them through other centres
C12_Witness ==
  /\ iteration = 2
  /\ clicks = 2
  /\ playerPoints > 0
  /\ Materialized # {}
  /\ \E g, h \in Histories :
       /\ ReplayEnd[g].center = CenterCell
       /\ ReplayEnd[h].center = CenterCell
       /\ Len(g) = 2 /\ Len(h) = 2
       /\ ReplayEnd[[n \in 1..1 |-> g[n]]].center
            # ReplayEnd[[n \in 1..1 |-> h[n]]].center

\* C13: in iteration 2, in every state between two events, each record's
\* pointValue and nextCoinSerial add up to the value rolled for its cell: no
\* state shows a harvest half done.
C13_HarvestAtomic ==
  iteration = 2 =>
    \A k \in DOMAIN cacheMementos :
      cacheMementos[k].pointValue + cacheMementos[k].nextCoinSerial
        = InitialValue(k[1], k[2])

\* two caches harvested once each, and a click after a harvest
C13_Witness ==
  /\ iteration = 2
  /\ clicks > 0
  /\ \E k1, k2 \in DOMAIN cacheMementos :
       /\ k1 # k2
       /\ cacheMementos[k1].nextCoinSerial = 1
       /\ cacheMementos[k2].nextCoinSerial = 1
       /\ cacheMementos[k1].rectangle = NoRect

\* C14: in both iterations every cell at an offset (di, dj) with
\* -NEIGHBORHOOD_SIZE <= di, dj <= NEIGHBORHOOD_SIZE from the centre cell
\* whose luck is below CACHE_SPAWN_PROBABILITY has a rectangle on the map,
\* the cells at offset +NEIGHBORHOOD_SIZE included.
C14_ClosedSquare ==
  \A k \in VisibleSet(CenterCell) : k \in OnMap

\* the cells materialized right after start-up
StartupMaterialized == ReplayEnd[<<>>].materialized

\* a click on north, south, east or west: movePlayer changes the position
\* and pans the map to it
ArrowStep ==
  /\ iteration = 2
  /\ clicks' # clicks
  /\ <<playerLat', playerLng'>> # <<playerLat, playerLng>>
  /\ mapCenter' = <<playerLat', playerLng'>>

\* a click on reset: reset does not pan the map, and the map is centred on
\* OAKES_CLASSROOM only while the player is there
ResetStep == iteration = 2 /\ clicks' # clicks /\ ~ArrowStep

\* C15: a reset puts the player and the marker at OAKES_CLASSROOM, leaves
\* materialized, and on the map, exactly the cells materialized right after
\* start-up, and leaves every record in the store with its pointValue and
\* nextCoinSerial.
C15_Reset ==
  [][ResetStep =>
       /\ playerLat' = OAKES_CLASSROOM.lat
       /\ playerLng' = OAKES_CLASSROOM.lng
       /\ playerMarker' = <<OAKES_CLASSROOM.lat, OAKES_CLASSROOM.lng>>
       /\ Materialized' = StartupMaterialized
       /\ OnMap' = StartupMaterialized
       /\ \A k \in DOMAIN cacheMementos :
            /\ k \in DOMAIN cacheMementos'
            /\ cacheMementos'[k].pointValue = cacheMementos[k].pointValue
            /\ cacheMementos'[k].nextCoinSerial = cacheMementos[k].nextCoinSerial]_vars

\* back at the start-up position by a reset pressed elsewhere (the map still
\* shows the other place), with a harvested cache on the map and one off it
C15_Witness ==
  /\ iteration = 2
  /\ CenterCell = OriginCell
  /\ mapCenter # <<OAKES_CLASSROOM.lat, OAKES_CLASSROOM.lng>>
  /\ Materialized = StartupMaterialized
  /\ \E k \in Materialized : cacheMementos[k].nextCoinSerial > 0
  /\ \E k \in DOMAIN cacheMementos \ Materialized :
       cacheMementos[k].nextCoinSerial > 0

\* C16: in iteration 2 the poke button of an open popup works whatever the
\* pointValue of its cache (up to the MaxHarvests harvests of a run), and a
\* harvest takes 1 from the pointValue it finds, zero or negative included,
\* adds 1 to playerPoints and hands out the record's next serial.
C16_NoFloor ==
  [][/\ (iteration = 2 /\ popup.open /\ playerPoints < MaxHarvests)
          => ENABLED spawnOrRestoreCachePoke
     /\ (iteration = 2 /\ Harvested) =>
          /\ cacheMementos'[HarvestedKey].pointValue
               = cacheMementos[HarvestedKey].pointValue - 1
          /\ popup'.shown = cacheMementos[HarvestedKey].pointValue - 1
          /\ playerPoints' = playerPoints + 1
          /\ statusPanel' = <<playerPoints + 1>>
          /\ console'[Len(console')].serial
               = cacheMementos[HarvestedKey].nextCoinSerial
          /\ cacheMementos'[HarvestedKey].nextCoinSerial
               = cacheMementos[HarvestedKey].nextCoinSerial + 1]_vars

\* a cache rolled with value 0 harvested twice: once at 0, once at -1
C16_Witness ==
  /\ iteration = 2
  /\ \E k \in DOMAIN cacheMementos :
       /\ InitialValue(k[1], k[2]) = 0
       /\ cacheMementos[k].pointValue = -2
       /\ cacheMementos[k].nextCoinSerial = 2
  /\ playerPoints = 2

\* the sum of nextCoinSerial over the records of m stored under keys
RECURSIVE SumSerials(_, _)
SumSerials(m, keys) ==
  IF keys = {} THEN 0
  ELSE LET k == CHOOSE x \in keys : TRUE
       IN m[k].nextCoinSerial + SumSerials(m, keys \ {k})

\* C17: in iteration 2 playerPoints is the number of coins logged and the sum
\* of nextCoinSerial over all records, before and after every step, and a
\* click on north, south, east, west or reset leaves playerPoints and the
\* status panel as they were.
C17_PointsAreHarvests ==
  [][iteration = 2 =>
       /\ playerPoints = SumSerials(cacheMementos, DOMAIN cacheMementos)
       /\ playerPoints = Len(console)
       /\ playerPoints' = SumSerials(cacheMementos', DOMAIN cacheMementos')
       /\ playerPoints' = Len(console')
       /\ clicks' # clicks =>
            playerPoints' = playerPoints /\ statusPanel' = statusPanel]_vars

\* two points from two caches, one of them off the map after two clicks
C17_Witness ==
  /\ iteration = 2
  /\ playerPoints = 2
  /\ clicks = 2
  /\ \E k1 \in Materialized, k2 \in DOMAIN cacheMementos \ Materialized :
       cacheMementos[k1].nextCoinSerial = 1 /\ cacheMementos[k2].nextCoinSerial = 1

\* the cells the player position has been quantized to so far
OccupiedCells == {<<k[1].v, k[2].v>> : k \in DOMAIN cellFlyweightCache}

\* cell k lies in the closed neighbourhood of centre cell c
InNeighborhood(k, c) ==
  /\ c[1] - NEIGHBORHOOD_SIZE <= k[1] /\ k[1] <= c[1] + NEIGHBORHOOD_SIZE
  /\ c[2] - NEIGHBORHOOD_SIZE <= k[2] /\ k[2] <= c[2] + NEIGHBORHOOD_SIZE

\* C18: in iteration 2 every key of cacheMementos, and every cell with a
\* rectangle on the map, has luck below CACHE_SPAWN_PROBABILITY and lies in
\* the neighbourhood of a cell the player has occupied.
C18_RecordsOnlyForMembers ==
  iteration = 2 =>
    \A k \in DOMAIN cacheMementos \cup OnMap :
      /\ luck(k) < CACHE_SPAWN_PROBABILITY
      /\ \E c \in OccupiedCells : InNeighborhood(k, c)

\* records made around three occupied cells, those of two of them off the map
C18_Witness ==
  /\ iteration = 2
  /\ Cardinality(OccupiedCells) = 3
  /\ \A c \in OccupiedCells : \E k \in DOMAIN cacheMementos : InNeighborhood(k, c)
  /\ \E k \in DOMAIN cacheMementos \ Materialized :
       ~InNeighborhood(k, OriginCell) /\ ~InNeighborhood(k, CenterCell)

\* C19: a click on north, south, east or west moves the centre cell by more
\* than 2 * NEIGHBORHOOD_SIZE cells along one axis, and no cell that was
\* materialized, or had a rectangle on the map, before the click is
\* materialized or on the map after it.
C19_ArrowMovesAreDisjoint ==
  [][ArrowStep =>
       /\ DisjointNeighborhoods(CenterCell, CenterCell')
       /\ Materialized \cap Materialized' = {}
       /\ OnMap \cap OnMap' = {}
       /\ \A l \in layers : l \notin layers']_vars

\* two arrow moves along different axes: the caches around the third centre
\* are on the map, those of the two centres left behind are not
C19_Witness ==
  /\ iteration = 2
  /\ CenterCell[1] # OriginCell[1]
  /\ CenterCell[2] # OriginCell[2]
  /\ Materialized # {}
  /\ \A k \in Materialized : InNeighborhood(k, CenterCell)
  /\ Cardinality(DOMAIN cacheMementos \ Materialized)
       > Cardinality(StartupMaterialized)

\* C20: in iteration 2 a harvest leaves every other record as it was, keeps
\* the key set of cacheMementos, the cell and the rectangle of every record
\* (the harvested one included), the rectangles on the map, the cell cache
\* and the player position, marker and map view.
C20_HarvestFrame ==
  [][(iteration = 2 /\ Harvested) =>
       /\ DOMAIN cacheMementos' = DOMAIN cacheMementos
       /\ \A k \in DOMAIN cacheMementos :
            /\ k # HarvestedKey => cacheMementos'[k] = cacheMementos[k]
            /\ cacheMementos'[k].rectangle = cacheMementos[k].rectangle
            /\ cacheMementos'[k].i = cacheMementos[k].i
            /\ cacheMementos'[k].j = cacheMementos[k].j
       /\ cacheMementos'[HarvestedKey] # cacheMementos[HarvestedKey]
       /\ playerPoints' # playerPoints
       /\ UNCHANGED <<layers, rects, cellFlyweightCache, cellObjects, returned,
                      playerLat, playerLng, playerMarker, mapCenter>>]_vars

\* a harvest away from the start-up position, after a harvest on another
\* cache that is now off the map
C20_Witness ==
  /\ iteration = 2
  /\ CenterCell # OriginCell
  /\ Len(console) = 2
  /\ <<console[1].i, console[1].j>> # <<console[2].i, console[2].j>>
  /\ <<console[1].i, console[1].j>> \notin Materialized
  /\ popup.open
  /\ <<popup.i, popup.j>> = <<console[2].i, console[2].j>>
  /\ Cardinality(DOMAIN cacheMementos) > 2

====
